---------------------------- MODULE Spec2Model ----------------------------
(***************************************************************************)
(* Model of nrf-modem's TLS stream (src/src/tls_stream.rs, src/src/tls.rs).*)
(*                                                                         *)
(* SpecStream  : the life of a connected stream: I/O on the stream, on its *)
(*               borrowed halves and on its owned halves, split,           *)
(*               split_owned, as_raw_fd and the deactivate calls.          *)
(* SpecConnect : one call of TlsStream::connect_with_cancellation, one     *)
(*               action per step between two suspension points.            *)
(* SpecIO      : one call of receive / receive_exact / write (with or      *)
(*               without a caller token) on a connected stream.            *)
(* SpecIOFair  : SpecIO with weak fairness of the steps of the call.       *)
(*                                                                         *)
(* The collaborators (LteLink, Socket, CancellationToken) are outside the  *)
(* two source files: every call into them returns a Result and the model   *)
(* draws that result nondeterministically.                                 *)
(***************************************************************************)
EXTENDS Integers, Sequences, FiniteSets, TLC

VARIABLES
    \* ---- connect_with_cancellation ----
    pc,             \* position of the call in the function body
    addrs,          \* the resolved candidate list (sequence of "V4"/"V6")
    resolve_ok,     \* whether addr.to_socket_addrs() yields Ok
    peer_verify,    \* the PeerVerification argument
    security_tags,  \* the security_tags argument
    token,          \* TRUE once the CancellationToken has been cancelled
    idx,            \* number of candidates taken from the iterator so far
    last_error,     \* the local last_error: None or an error
    lte_link,       \* the local lte_link: "none", "held", "deactivated",
                    \*   "deactivate_failed", "dropped", "leaked"
    sockets,        \* per candidate: the socket created for it
    result,         \* what the call returned: None, Ok or Err
    linkNewCalls,   \* calls of LteLink::new
    linkDeactivateCalls, \* calls of LteLink::deactivate
    linkDrops,      \* lte_link going out of scope while still held
    \* ---- receive / receive_exact / write on a connected stream ----
    io_pc,          \* "idle", "raw_receive", "raw_write", "returned"
    io_op,          \* "receive", "receive_exact" or "write"
    io_with_token,  \* TRUE: the _with_cancellation form, with the caller's
                    \*   token; FALSE: the plain form, with a default token
    io_token,       \* TRUE once the token of the call has been cancelled
    buf,            \* the caller's buffer, a sequence of bytes
    received_bytes, \* the local received_bytes of receive_exact
    written_bytes,  \* the local written_bytes of write
    raw_calls,      \* the raw socket calls made so far, with their results
    recv_log,       \* the bytes the raw receives delivered, concatenated
    wire_seed,      \* selects the byte stream the peer sends
    shorts,         \* raw transfers so far that moved fewer bytes than asked
    cancel_at,      \* None, or the progress of the call when it was cancelled
    io_result,      \* what the call returned
    \* ---- the stream, its halves and their sockets ----
    stream_obj,     \* the TlsStream: "none", "live", or "moved" (consumed by
                    \*   deactivate or split_owned)
    borrowed,       \* TRUE while the halves returned by split() are alive
    owned_read,     \* the OwnedTlsReadStream: "none", "live", "moved"
    owned_write,    \* the OwnedTlsWriteStream: "none", "live", "moved"
    caps,           \* the sockets: the stream's inner one and the two split
                    \*   handles, each with its state and its descriptor
    io_shape,       \* the object the I/O call is made on
    prev_io,        \* None, or the socket and outcome of the previous I/O call
    fd_log,         \* the results of as_raw_fd so far, each with `borrowed`
    life_result     \* the results of split_owned and of the deactivate calls

connectVars == <<pc, addrs, resolve_ok, peer_verify, security_tags, token, idx,
                 last_error, lte_link, sockets, result, linkNewCalls,
                 linkDeactivateCalls, linkDrops>>

ioVars == <<io_pc, io_op, io_with_token, io_token, buf, received_bytes,
            written_bytes, raw_calls, recv_log, wire_seed, shorts, cancel_at,
            io_result>>

streamVars == <<stream_obj, borrowed, owned_read, owned_write, caps, io_shape,
                prev_io, fd_log, life_result>>

vars == <<connectVars, ioVars, streamVars>>

(***************************************************************************)
(* Bounds                                                                  *)
(***************************************************************************)
MaxAddrs == 3

\* Buffer lengths tried: 0..SmallLen, and from one below the chunk size to
\* OverLen above it, and OverLen above two chunks.
SmallLen == 2

OverLen == 1

\* Raw transfers of one call that may move fewer bytes than asked for.
MaxShort == 3

\* Buffer lengths of the I/O calls made during the life of a stream
\* (SpecStream): 0..StreamBufLen.
StreamBufLen == 1

(***************************************************************************)
(* tls.rs                                                                  *)
(***************************************************************************)
PeerVerification == {"Enabled", "Optional", "Disabled"}

\* Mutant of as_integer: the declaration order of the variants is used.
as_integer_DeclarationOrder(pv) ==
    CASE pv = "Enabled"  -> 0
      [] pv = "Optional" -> 1
      [] pv = "Disabled" -> 2

\* lines 12-18: fn as_integer(self) -> u32
as_integer(pv) ==
    CASE pv = "Enabled"  -> 2
      [] pv = "Optional" -> 1
      [] pv = "Disabled" -> 0

(***************************************************************************)
(* Values                                                                  *)
(***************************************************************************)
None == [tag |-> "None"]

\* An error value: its kind, the call that produced it, the candidate (0 when
\* the call is not tied to a candidate).
Err(kind, op, cand) == [tag |-> "Err", kind |-> kind, op |-> op, cand |-> cand]

Cancelled(op, cand) == Err("Cancelled", op, cand)

\* token.as_result() before candidate k: Err(Cancelled) once the token has been
\* cancelled, Ok(()) before.
as_result(cancelled, k) ==
    IF cancelled THEN Cancelled("token.as_result", k) ELSE [tag |-> "Ok"]

\* Ok(TlsStream { inner: socket }) for the socket of candidate k.
OkStream(k) == [tag |-> "Ok", inner |-> k]

SocketAddrFamilies == {"V4", "V6"}

\* match addr { V4(_) => SocketFamily::Ipv4, V6(_) => SocketFamily::Ipv6 }
family(addr) == IF addr = "V4" THEN "Ipv4" ELSE "Ipv6"

\* A candidate's socket: state, what it was created with, the options set on it
\* in order, and the result of its connect handshake (None: not attempted).
NoSocket == [state |-> "none", family |-> "none", type |-> "none",
             protocol |-> "none", opts |-> <<>>, handshake |-> None]

\* The three options of lines 144-146, in program order.
ConnectOptions ==
    << <<"TlsPeerVerify", as_integer(peer_verify)>>,
       <<"TlsSessionCache", 0>>,
       <<"TlsTagList", security_tags>> >>

TagLists == { <<>>, <<7>>, <<42, 7>> }

AddrLists == UNION { [1..n -> SocketAddrFamilies] : n \in 0..MaxAddrs }

(***************************************************************************)
(* The stream and its halves                                               *)
(***************************************************************************)
\* The objects I/O can be called on: the TlsStream, the TlsReadStream and
\* TlsWriteStream of split(), the OwnedTlsReadStream and OwnedTlsWriteStream of
\* split_owned().
ReadShapes == {"stream", "borrowed_read", "owned_read"}

WriteShapes == {"stream", "borrowed_write", "owned_write"}

Shapes == ReadShapes \cup WriteShapes

\* The sockets: the Socket a TlsStream wraps and the two SplitSocketHandles.
CapIds == {"inner", "read_split", "write_split"}

\* fn socket(&self) -> &Socket of each of the five types.
socket(shape) ==
    CASE shape = "stream"         -> "inner"
      [] shape = "borrowed_read"  -> "inner"
      [] shape = "borrowed_write" -> "inner"
      [] shape = "owned_read"     -> "read_split"
      [] shape = "owned_write"    -> "write_split"

\* The descriptors a connected socket may have.
StreamFds == {3}

NoCap == [state |-> "none", fd |-> -1]

NoLifeResults ==
    [op \in {"split_owned", "deactivate", "read_deactivate", "write_deactivate"}
        |-> None]

\* No stream exists (yet).
NoStream ==
    /\ stream_obj = "none"
    /\ borrowed = FALSE
    /\ owned_read = "none"
    /\ owned_write = "none"
    /\ caps = [c \in CapIds |-> NoCap]
    /\ io_shape = "stream"
    /\ prev_io = None
    /\ fd_log = {}
    /\ life_result = NoLifeResults

\* TlsStream { inner: socket } as connect returns it: the stream owns its open
\* socket, nothing has been split off it.
FreshStream ==
    /\ stream_obj = "live"
    /\ borrowed = FALSE
    /\ owned_read = "none"
    /\ owned_write = "none"
    /\ \E fd \in StreamFds :
          caps = [c \in CapIds |->
                    IF c = "inner" THEN [state |-> "open", fd |-> fd] ELSE NoCap]
    /\ io_shape = "stream"
    /\ prev_io = None
    /\ fd_log = {}
    /\ life_result = NoLifeResults

(***************************************************************************)
(* Scope exit.  A `?` that returns early, drops the locals still owned, the *)
(* innermost first: the loop body's socket, then lte_link.  What the Drop   *)
(* implementations do is outside the two files; the model records that the  *)
(* value was dropped.                                                       *)
(***************************************************************************)
DropSocket(socks, k) ==
    IF k \in DOMAIN socks /\ socks[k].state \in {"open", "connected"}
    THEN [socks EXCEPT ![k].state = "dropped"]
    ELSE socks

DropLteLink(l) == IF l = "held" THEN "dropped" ELSE l

\* Mutant of ReturnErr: the early return keeps the link held.
ReturnErr_KeepsLink(e, k) ==
    /\ result' = e
    /\ sockets' = DropSocket(sockets, k)
    /\ UNCHANGED <<lte_link, linkDrops>>
    /\ pc' = "returned"

\* return Err(e) by `?` out of the loop body: socket k (when still owned) and
\* lte_link go out of scope.
ReturnErr(e, k) ==
    /\ result' = e
    /\ sockets' = DropSocket(sockets, k)
    /\ lte_link' = DropLteLink(lte_link)
    /\ linkDrops' = IF lte_link = "held" THEN linkDrops + 1 ELSE linkDrops
    /\ pc' = "returned"

\* unwrap() of None / Err: a panic.  Unwinding drops the locals, an aborting
\* build does not.
Panic ==
    /\ pc' = "panicked"
    /\ result' = [tag |-> "Panic"]
    /\ \E unwind \in BOOLEAN :
          IF unwind /\ lte_link = "held"
          THEN lte_link' = "dropped" /\ linkDrops' = linkDrops + 1
          ELSE /\ lte_link' = (IF lte_link = "held" THEN "leaked" ELSE lte_link)
               /\ linkDrops' = linkDrops

(***************************************************************************)
(* connect_with_cancellation                                               *)
(***************************************************************************)
\* No stream exists yet, so no I/O call is in progress.
NoIo ==
    /\ io_pc = "idle"
    /\ io_op = "receive"
    /\ io_with_token = FALSE
    /\ io_token = FALSE
    /\ buf = <<>>
    /\ received_bytes = 0
    /\ written_bytes = 0
    /\ raw_calls = <<>>
    /\ recv_log = <<>>
    /\ wire_seed = 0
    /\ shorts = 0
    /\ cancel_at = None
    /\ io_result = None

InitConnect ==
    /\ pc = "idle"
    /\ addrs \in AddrLists
    /\ resolve_ok \in BOOLEAN
    /\ peer_verify \in PeerVerification
    /\ security_tags \in TagLists
    /\ token = FALSE
    /\ idx = 0
    /\ last_error = None
    /\ lte_link = "none"
    /\ sockets = [k \in 1..Len(addrs) |-> NoSocket]
    /\ result = None
    /\ linkNewCalls = 0
    /\ linkDeactivateCalls = 0
    /\ linkDrops = 0
    /\ NoIo
    /\ NoStream

\* The caller (or another task holding the token) cancels.
Cancel ==
    /\ pc \notin {"returned", "panicked"}
    /\ token = FALSE
    /\ token' = TRUE
    /\ UNCHANGED <<pc, addrs, resolve_ok, peer_verify, security_tags, idx,
                   last_error, lte_link, sockets, result, linkNewCalls,
                   linkDeactivateCalls, linkDrops>>
    /\ UNCHANGED <<ioVars, streamVars>>

\* line 131: let mut last_error = None; then LteLink::new() is awaited.
ConnectCall ==
    /\ pc = "idle"
    /\ last_error' = None
    /\ pc' = "link_new"
    /\ UNCHANGED <<addrs, resolve_ok, peer_verify, security_tags, token, idx,
                   lte_link, sockets, result, linkNewCalls,
                   linkDeactivateCalls, linkDrops>>
    /\ UNCHANGED <<ioVars, streamVars>>

\* line 132: let lte_link = LteLink::new().await?;
LteLinkNew ==
    /\ pc = "link_new"
    /\ linkNewCalls' = linkNewCalls + 1
    /\ \E ok \in BOOLEAN :
          IF ok
          THEN /\ lte_link' = "held"
               /\ pc' = "resolve"
               /\ UNCHANGED <<result, sockets, linkDrops>>
          ELSE ReturnErr(Err("Link", "LteLink::new", 0), 0)
    /\ UNCHANGED <<addrs, resolve_ok, peer_verify, security_tags, token, idx,
                   last_error, linkDeactivateCalls>>
    /\ UNCHANGED <<ioVars, streamVars>>

\* line 133: let addrs = addr.to_socket_addrs().unwrap();
Resolve ==
    /\ pc = "resolve"
    /\ IF resolve_ok
       THEN /\ pc' = "loop_head"
            /\ UNCHANGED <<result, lte_link, linkDrops>>
       ELSE Panic
    /\ UNCHANGED <<addrs, resolve_ok, peer_verify, security_tags, token, idx,
                   last_error, sockets, linkNewCalls, linkDeactivateCalls>>
    /\ UNCHANGED <<ioVars, streamVars>>

\* Mutant of LoopHead: the token is not consulted before a candidate attempt.
LoopHead_NoTokenCheck ==
    /\ pc = "loop_head"
    /\ IF idx = Len(addrs)
       THEN /\ pc' = "link_deactivate_end"
            /\ UNCHANGED idx
       ELSE /\ idx' = idx + 1
            /\ pc' = "create"
    /\ UNCHANGED <<addrs, resolve_ok, peer_verify, security_tags, token,
                   last_error, linkNewCalls, linkDeactivateCalls, result,
                   sockets, lte_link, linkDrops>>
    /\ UNCHANGED <<ioVars, streamVars>>

\* lines 135-141: the iterator yields the next candidate, or the loop ends;
\* token.as_result()?; the family of the candidate; Socket::create is awaited.
LoopHead ==
    /\ pc = "loop_head"
    /\ IF idx = Len(addrs)
       THEN /\ pc' = "link_deactivate_end"
            /\ UNCHANGED <<idx, result, sockets, lte_link, linkDrops>>
       ELSE /\ idx' = idx + 1
            /\ IF as_result(token, idx + 1).tag = "Err"
               THEN ReturnErr(as_result(token, idx + 1), 0)
               ELSE /\ pc' = "create"
                    /\ UNCHANGED <<result, sockets, lte_link, linkDrops>>
    /\ UNCHANGED <<addrs, resolve_ok, peer_verify, security_tags, token,
                   last_error, linkNewCalls, linkDeactivateCalls>>
    /\ UNCHANGED <<ioVars, streamVars>>

\* line 143: let socket = Socket::create(family, Stream, Tls1v2).await?;
SocketCreate ==
    /\ pc = "create"
    /\ \E ok \in BOOLEAN :
          IF ok
          THEN /\ sockets' = [sockets EXCEPT ![idx] =
                     [NoSocket EXCEPT !.state = "open",
                                      !.family = family(addrs[idx]),
                                      !.type = "Stream",
                                      !.protocol = "Tls1v2"]]
               /\ pc' = "set_options"
               /\ UNCHANGED <<result, lte_link, linkDrops>>
          ELSE ReturnErr(Err("Transport", "Socket::create", idx), 0)
    /\ UNCHANGED <<addrs, resolve_ok, peer_verify, security_tags, token, idx,
                   last_error, linkNewCalls, linkDeactivateCalls>>
    /\ UNCHANGED <<ioVars, streamVars>>

\* Mutant of SetOptions: a failed set_option is ignored and the handshake is
\* attempted with the options set so far.
SetOptions_IgnoresFailure ==
    /\ pc = "set_options"
    /\ \E n \in 0..Len(ConnectOptions) :
          sockets' = [sockets EXCEPT ![idx].opts = SubSeq(ConnectOptions, 1, n)]
    /\ pc' = "connect"
    /\ UNCHANGED <<addrs, resolve_ok, peer_verify, security_tags, token, idx,
                   last_error, linkNewCalls, linkDeactivateCalls, result,
                   lte_link, linkDrops>>
    /\ UNCHANGED <<ioVars, streamVars>>

\* lines 144-146: the three set_option calls, each followed by `?`.  n is the
\* number of calls that return Ok before one fails (3: none fails).
SetOptions ==
    /\ pc = "set_options"
    /\ \E n \in 0..Len(ConnectOptions) :
          LET socks == [sockets EXCEPT ![idx].opts = SubSeq(ConnectOptions, 1, n)]
          IN  IF n = Len(ConnectOptions)
              THEN /\ sockets' = socks
                   /\ pc' = "connect"
                   /\ UNCHANGED <<result, lte_link, linkDrops>>
              ELSE /\ result' = Err("Transport", ConnectOptions[n + 1][1], idx)
                   /\ sockets' = DropSocket(socks, idx)
                   /\ lte_link' = DropLteLink(lte_link)
                   /\ linkDrops' = linkDrops + 1
                   /\ pc' = "returned"
    /\ UNCHANGED <<addrs, resolve_ok, peer_verify, security_tags, token, idx,
                   last_error, linkNewCalls, linkDeactivateCalls>>
    /\ UNCHANGED <<ioVars, streamVars>>

\* The results socket.connect(addr, token) can produce.
ConnectOutcomes(cancelled, k) ==
    {[tag |-> "Ok"], Err("Transport", "Socket::connect", k)}
        \cup (IF cancelled THEN {Cancelled("Socket::connect", k)} ELSE {})

\* Mutant of SocketConnect: last_error keeps the first failure instead of the
\* latest one.
SocketConnect_KeepsFirstError ==
    /\ pc = "connect"
    /\ \E r \in ConnectOutcomes(token, idx) :
          IF r.tag = "Ok"
          THEN /\ sockets' = [sockets EXCEPT ![idx].state = "connected",
                                             ![idx].handshake = r]
               /\ pc' = "link_deactivate_ok"
               /\ UNCHANGED last_error
          ELSE /\ sockets' = [sockets EXCEPT ![idx].handshake = r]
               /\ last_error' = (IF last_error = None THEN r ELSE last_error)
               /\ pc' = "socket_deactivate"
    /\ UNCHANGED <<addrs, resolve_ok, peer_verify, security_tags, token, idx,
                   lte_link, result, linkNewCalls, linkDeactivateCalls,
                   linkDrops>>
    /\ UNCHANGED <<ioVars, streamVars>>

\* lines 148-149, 153-154: the handshake; on Err(e): last_error = Some(e).
SocketConnect ==
    /\ pc = "connect"
    /\ \E r \in ConnectOutcomes(token, idx) :
          IF r.tag = "Ok"
          THEN /\ sockets' = [sockets EXCEPT ![idx].state = "connected",
                                             ![idx].handshake = r]
               /\ pc' = "link_deactivate_ok"
               /\ UNCHANGED last_error
          ELSE /\ sockets' = [sockets EXCEPT ![idx].handshake = r]
               /\ last_error' = r
               /\ pc' = "socket_deactivate"
    /\ UNCHANGED <<addrs, resolve_ok, peer_verify, security_tags, token, idx,
                   lte_link, result, linkNewCalls, linkDeactivateCalls,
                   linkDrops>>
    /\ UNCHANGED <<ioVars, streamVars>>

\* Mutant of LinkDeactivateOk: the stream is returned without deactivating the
\* link, which then goes out of scope.
LinkDeactivateOk_SkipsDeactivate ==
    /\ pc = "link_deactivate_ok"
    /\ lte_link' = "dropped"
    /\ linkDrops' = linkDrops + 1
    /\ result' = OkStream(idx)
    /\ pc' = "returned"
    /\ UNCHANGED <<addrs, resolve_ok, peer_verify, security_tags, token, idx,
                   last_error, linkNewCalls, linkDeactivateCalls, sockets>>
    /\ UNCHANGED <<ioVars, streamVars>>

\* lines 150-151: lte_link.deactivate().await?; return Ok(TlsStream { inner: socket })
\* deactivate takes lte_link by value; on Err the socket goes out of scope.
LinkDeactivateOk ==
    /\ pc = "link_deactivate_ok"
    /\ linkDeactivateCalls' = linkDeactivateCalls + 1
    /\ \E ok \in BOOLEAN :
          IF ok
          THEN /\ lte_link' = "deactivated"
               /\ result' = OkStream(idx)
               /\ UNCHANGED sockets
          ELSE /\ lte_link' = "deactivate_failed"
               /\ result' = Err("Link", "LteLink::deactivate", 0)
               /\ sockets' = DropSocket(sockets, idx)
    /\ pc' = "returned"
    /\ UNCHANGED <<addrs, resolve_ok, peer_verify, security_tags, token, idx,
                   last_error, linkNewCalls, linkDrops>>
    /\ UNCHANGED <<ioVars, streamVars>>

\* Mutant of SocketDeactivate: the link is deactivated with every failed
\* candidate instead of once per call.
SocketDeactivate_DeactivatesLink ==
    /\ pc = "socket_deactivate"
    /\ sockets' = [sockets EXCEPT ![idx].state = "deactivated"]
    /\ lte_link' = "deactivated"
    /\ linkDeactivateCalls' = linkDeactivateCalls + 1
    /\ pc' = "loop_head"
    /\ UNCHANGED <<addrs, resolve_ok, peer_verify, security_tags, token, idx,
                   last_error, linkNewCalls, result, linkDrops>>
    /\ UNCHANGED <<ioVars, streamVars>>

\* Mutant of SocketDeactivate: a failed deactivation is ignored and the loop
\* goes on with the next candidate.
SocketDeactivate_BestEffort ==
    /\ pc = "socket_deactivate"
    /\ \E ok \in BOOLEAN :
          sockets' = [sockets EXCEPT ![idx].state =
                         IF ok THEN "deactivated" ELSE "deactivate_failed"]
    /\ pc' = "loop_head"
    /\ UNCHANGED <<addrs, resolve_ok, peer_verify, security_tags, token, idx,
                   last_error, linkNewCalls, linkDeactivateCalls, result,
                   lte_link, linkDrops>>
    /\ UNCHANGED <<ioVars, streamVars>>

\* Mutant of SocketDeactivate: the failed socket is kept open and the loop goes
\* on with the next candidate.
SocketDeactivate_Skipped ==
    /\ pc = "socket_deactivate"
    /\ pc' = "loop_head"
    /\ UNCHANGED <<addrs, resolve_ok, peer_verify, security_tags, token, idx,
                   last_error, linkNewCalls, linkDeactivateCalls, result,
                   lte_link, linkDrops, sockets>>
    /\ UNCHANGED <<ioVars, streamVars>>

\* line 155: socket.deactivate().await?;  deactivate takes the socket by value.
SocketDeactivate ==
    /\ pc = "socket_deactivate"
    /\ \E ok \in BOOLEAN :
          IF ok
          THEN /\ sockets' = [sockets EXCEPT ![idx].state = "deactivated"]
               /\ pc' = "loop_head"
               /\ UNCHANGED <<result, lte_link, linkDrops>>
          ELSE /\ sockets' = [sockets EXCEPT ![idx].state = "deactivate_failed"]
               /\ result' = Err("Transport", "Socket::deactivate", idx)
               /\ lte_link' = DropLteLink(lte_link)
               /\ linkDrops' = linkDrops + 1
               /\ pc' = "returned"
    /\ UNCHANGED <<addrs, resolve_ok, peer_verify, security_tags, token, idx,
                   last_error, linkNewCalls, linkDeactivateCalls>>
    /\ UNCHANGED <<ioVars, streamVars>>

\* Mutant of LinkDeactivateEnd: last_error is unwrapped before the link is
\* deactivated.
LinkDeactivateEnd_UnwrapsFirst ==
    /\ pc = "link_deactivate_end"
    /\ IF last_error = None
       THEN /\ Panic
            /\ UNCHANGED <<last_error, linkDeactivateCalls>>
       ELSE /\ linkDeactivateCalls' = linkDeactivateCalls + 1
            /\ linkDrops' = linkDrops
            /\ pc' = "returned"
            /\ last_error' = None
            /\ \E ok \in BOOLEAN :
                  IF ok
                  THEN lte_link' = "deactivated" /\ result' = last_error
                  ELSE /\ lte_link' = "deactivate_failed"
                       /\ result' = Err("Link", "LteLink::deactivate", 0)
    /\ UNCHANGED <<addrs, resolve_ok, peer_verify, security_tags, token, idx,
                   sockets, linkNewCalls>>
    /\ UNCHANGED <<ioVars, streamVars>>

\* lines 160-161: lte_link.deactivate().await?; Err(last_error.take().unwrap())
LinkDeactivateEnd ==
    /\ pc = "link_deactivate_end"
    /\ linkDeactivateCalls' = linkDeactivateCalls + 1
    /\ \E ok \in BOOLEAN :
          IF ok
          THEN /\ lte_link' = "deactivated"
               /\ IF last_error = None
                  THEN /\ pc' = "panicked"
                       /\ result' = [tag |-> "Panic"]
                       /\ UNCHANGED last_error
                  ELSE /\ pc' = "returned"
                       /\ result' = last_error
                       /\ last_error' = None
          ELSE /\ lte_link' = "deactivate_failed"
               /\ result' = Err("Link", "LteLink::deactivate", 0)
               /\ pc' = "returned"
               /\ UNCHANGED last_error
    /\ UNCHANGED <<addrs, resolve_ok, peer_verify, security_tags, token, idx,
                   sockets, linkNewCalls, linkDrops>>
    /\ UNCHANGED <<ioVars, streamVars>>

NextConnect ==
    \/ Cancel
    \/ ConnectCall
    \/ LteLinkNew
    \/ Resolve
    \/ LoopHead
    \/ SocketCreate
    \/ SetOptions
    \/ SocketConnect
    \/ LinkDeactivateOk
    \/ SocketDeactivate
    \/ LinkDeactivateEnd

SpecConnect == InitConnect /\ [][NextConnect]_vars

(***************************************************************************)
(* impl_receive! / impl_write!: receive, receive_exact, write               *)
(***************************************************************************)
MaxReceiveLen == 1024

MaxWriteLen == 1024

Min(a, b) == IF a < b THEN a ELSE b

\* A sub-slice of the caller's buffer: `len` bytes from 0-based offset `off`.
Slice(off, len) == [off |-> off, len |-> len]

BufLens ==
    (0..SmallLen)
        \cup ((MaxReceiveLen - 1)..(MaxReceiveLen + OverLen))
        \cup {2 * MaxReceiveLen + OverLen}

\* What the caller's buffer holds at position i when the call is made.
InitByte(i) == (3 * i) % 256

WireSeeds == {1, 2}

\* The i-th byte (from 1) of the stream the peer sends.
WireByte(seed, i) == (seed + 5 * i) % 256

\* Mutant of max_receive_len: the whole buffer is passed to the socket.
max_receive_len_Uncapped(len) == len

\* line 31: let max_receive_len = 1024.min(buf.len());
max_receive_len(len) == Min(MaxReceiveLen, len)

\* Mutant of max_write_len: the whole rest of the buffer is written at once.
max_write_len_Uncapped(len, written) == len - written

\* line 96: let max_write_len = 1024.min(buf.len() - written_bytes);
max_write_len(len, written) == Min(MaxWriteLen, len - written)

\* lines 32-34: receive_with_cancellation on slice s asks the socket to fill
\* &mut s[..max_receive_len].
receive_request(s) == Slice(s.off, max_receive_len(s.len))

\* Mutant of exact_sub_buffer: the window starts where it should but keeps the
\* length of the whole buffer.
exact_sub_buffer_FullLength(received) == Slice(received, Len(buf))

\* Mutant of exact_sub_buffer: the window into the buffer never advances.
exact_sub_buffer_NotAdvanced(received) == Slice(0, Len(buf))

\* line 66: &mut buf[received_bytes..]
exact_sub_buffer(received) == Slice(received, Len(buf) - received)

\* Mutant of exact_error_prefix: the partial progress is discarded.
exact_error_prefix_Empty(received) == Slice(0, 0)

\* line 70: &mut buf[..received_bytes]
exact_error_prefix(received) == Slice(0, received)

\* line 99: &buf[written_bytes..][..max_write_len]
write_request(written) == Slice(written, max_write_len(Len(buf), written))

\* One call of self.socket().receive or self.socket().write: the socket, the
\* slice it was given and its result (None while the call is pending).
RawCall(op, s) ==
    [op |-> op, sock |-> socket(io_shape), off |-> s.off, len |-> s.len,
     ret |-> None]

OkCount(n) == [tag |-> "Ok", n |-> n]

\* The byte counts a raw transfer of up to req bytes can report: none, one, all
\* but one, all; fewer than req only while the call has short transfers left.
RawCounts(req, used) ==
    {n \in {0, 1, req - 1, req} : n >= 0 /\ n <= req /\ (n = req \/ used < MaxShort)}

\* The results of Socket::receive / Socket::write on a slice of req bytes:
\* Cancelled when the token has been cancelled, else a byte count of at most
\* req or a transport error.
RawResults(op, cancelled, req, used) ==
    IF cancelled
    THEN {Cancelled(op, 0)}
    ELSE {OkCount(n) : n \in RawCounts(req, used)} \cup {Err("Transport", op, 0)}

PendingCall == raw_calls[Len(raw_calls)]

\* raw_calls with the pending call's result filled in.
Completed(r) == [raw_calls EXCEPT ![Len(raw_calls)].ret = r]

\* The buffer after the socket stored n received bytes at the start of the
\* slice of the pending call.
Stored(n) ==
    [i \in 1..Len(buf) |->
        IF PendingCall.off < i /\ i <= PendingCall.off + n
        THEN WireByte(wire_seed, Len(recv_log) + (i - PendingCall.off))
        ELSE buf[i]]

Delivered(n) == [j \in 1..n |-> WireByte(wire_seed, Len(recv_log) + j)]

\* A stream has been returned by connect: the state SpecIO starts from.
Connected ==
    /\ pc = "returned"
    /\ addrs = <<"V4">>
    /\ resolve_ok = TRUE
    /\ peer_verify = "Enabled"
    /\ security_tags = <<>>
    /\ token = FALSE
    /\ idx = 1
    /\ last_error = None
    /\ lte_link = "deactivated"
    /\ sockets = <<[state |-> "connected", family |-> "Ipv4", type |-> "Stream",
                    protocol |-> "Tls1v2", opts |-> ConnectOptions,
                    handshake |-> [tag |-> "Ok"]]>>
    /\ result = OkStream(1)
    /\ linkNewCalls = 1
    /\ linkDeactivateCalls = 1
    /\ linkDrops = 0

InitIO ==
    /\ Connected
    /\ FreshStream
    /\ io_pc = "idle"
    /\ io_op \in {"receive", "receive_exact", "write"}
    /\ io_with_token \in BOOLEAN
    /\ io_token = FALSE
    /\ \E n \in BufLens : buf = [i \in 1..n |-> InitByte(i)]
    /\ received_bytes = 0
    /\ written_bytes = 0
    /\ raw_calls = <<>>
    /\ recv_log = <<>>
    /\ wire_seed \in WireSeeds
    /\ shorts = 0
    /\ cancel_at = None
    /\ io_result = None

\* Bytes moved so far by the call in progress.
Transferred == IF io_op = "write" THEN written_bytes ELSE Len(recv_log)

\* Raw calls that have returned so far.
CompletedCalls ==
    IF io_pc \in {"raw_receive", "raw_write"} THEN Len(raw_calls) - 1 ELSE Len(raw_calls)

\* The holder of the caller's token cancels it.  The default token of the plain
\* forms (lines 20, 48, 83) is local to the call: nobody can cancel it.
IoCancel ==
    /\ io_with_token
    /\ io_pc # "returned"
    /\ io_token = FALSE
    /\ io_token' = TRUE
    /\ cancel_at' = [calls |-> CompletedCalls, bytes |-> Transferred]
    /\ UNCHANGED <<io_pc, io_op, io_with_token, buf, received_bytes,
                   written_bytes, raw_calls, recv_log, wire_seed, shorts,
                   io_result>>
    /\ UNCHANGED <<connectVars, streamVars>>

\* lines 19-35: receive / receive_with_cancellation up to the await of the
\* socket's receive.
ReceiveCall ==
    /\ io_pc = "idle"
    /\ io_op = "receive"
    /\ raw_calls' = Append(raw_calls,
                           RawCall("receive", receive_request(Slice(0, Len(buf)))))
    /\ io_pc' = "raw_receive"
    /\ UNCHANGED <<io_op, io_with_token, io_token, buf, received_bytes,
                   written_bytes, recv_log, wire_seed, shorts, cancel_at,
                   io_result>>
    /\ UNCHANGED <<connectVars, streamVars>>

\* lines 35-36: the socket's receive returns; `?`; Ok(&mut buf[..received_bytes])
ReceiveReturn ==
    /\ io_pc = "raw_receive"
    /\ io_op = "receive"
    /\ \E r \in RawResults("receive", io_token, PendingCall.len, shorts) :
          /\ raw_calls' = Completed(r)
          /\ IF r.tag = "Ok"
             THEN /\ buf' = Stored(r.n)
                  /\ recv_log' = recv_log \o Delivered(r.n)
                  /\ shorts' = IF r.n < PendingCall.len THEN shorts + 1 ELSE shorts
                  /\ io_result' = [tag |-> "Ok", slice |-> Slice(0, r.n)]
             ELSE /\ io_result' = [tag |-> "Err", err |-> r]
                  /\ UNCHANGED <<buf, recv_log, shorts>>
    /\ io_pc' = "returned"
    /\ UNCHANGED <<io_op, io_with_token, io_token, received_bytes,
                   written_bytes, wire_seed, cancel_at>>
    /\ UNCHANGED <<connectVars, streamVars>>

\* lines 64-67, 74: the loop test of receive_exact with `received` bytes in the
\* buffer and `calls` made: the next receive_with_cancellation on the rest of
\* the buffer, up to the await of the socket's receive; or Ok(()).
ReceiveExactLoop(received, calls) ==
    IF received < Len(buf)
    THEN /\ raw_calls' = Append(calls,
                RawCall("receive", receive_request(exact_sub_buffer(received))))
         /\ io_pc' = "raw_receive"
         /\ UNCHANGED io_result
    ELSE /\ raw_calls' = calls
         /\ io_pc' = "returned"
         /\ io_result' = [tag |-> "Ok"]

\* lines 44-67: receive_exact / receive_exact_with_cancellation is called.
ReceiveExactCall ==
    /\ io_pc = "idle"
    /\ io_op = "receive_exact"
    /\ received_bytes' = 0
    /\ ReceiveExactLoop(0, raw_calls)
    /\ UNCHANGED <<io_op, io_with_token, io_token, buf, written_bytes, recv_log,
                   wire_seed, shorts, cancel_at>>
    /\ UNCHANGED <<connectVars, streamVars>>

\* Mutant of ReceiveExactStep: after a failed raw receive the loop asks again,
\* and gives up only once MaxShort calls have not filled their slice.
ReceiveExactStep_RetriesOnError ==
    /\ io_pc = "raw_receive"
    /\ io_op = "receive_exact"
    /\ \E r \in RawResults("receive", io_token, PendingCall.len, shorts) :
          IF r.tag = "Ok"
          THEN /\ buf' = Stored(r.n)
               /\ recv_log' = recv_log \o Delivered(r.n)
               /\ shorts' = IF r.n < PendingCall.len THEN shorts + 1 ELSE shorts
               /\ received_bytes' = received_bytes + r.n
               /\ ReceiveExactLoop(received_bytes + r.n, Completed(r))
          ELSE /\ IF shorts < MaxShort
                  THEN /\ shorts' = shorts + 1
                       /\ ReceiveExactLoop(received_bytes, Completed(r))
                  ELSE /\ raw_calls' = Completed(r)
                       /\ io_result' = [tag |-> "Err", err |-> r,
                                        slice |-> exact_error_prefix(received_bytes)]
                       /\ io_pc' = "returned"
                       /\ UNCHANGED shorts
               /\ UNCHANGED <<buf, recv_log, received_bytes>>
    /\ UNCHANGED <<io_op, io_with_token, io_token, written_bytes, wire_seed,
                   cancel_at>>
    /\ UNCHANGED <<connectVars, streamVars>>

\* lines 65-71: the pending receive_with_cancellation returns.
\* Ok(received_data): received_bytes += received_data.len(), and the loop goes on;
\* Err(e): return Err((e.into(), &mut buf[..received_bytes])).
ReceiveExactStep ==
    /\ io_pc = "raw_receive"
    /\ io_op = "receive_exact"
    /\ \E r \in RawResults("receive", io_token, PendingCall.len, shorts) :
          IF r.tag = "Ok"
          THEN /\ buf' = Stored(r.n)
               /\ recv_log' = recv_log \o Delivered(r.n)
               /\ shorts' = IF r.n < PendingCall.len THEN shorts + 1 ELSE shorts
               /\ received_bytes' = received_bytes + r.n
               /\ ReceiveExactLoop(received_bytes + r.n, Completed(r))
          ELSE /\ raw_calls' = Completed(r)
               /\ io_result' = [tag |-> "Err", err |-> r,
                                slice |-> exact_error_prefix(received_bytes)]
               /\ io_pc' = "returned"
               /\ UNCHANGED <<buf, recv_log, shorts, received_bytes>>
    /\ UNCHANGED <<io_op, io_with_token, io_token, written_bytes, wire_seed,
                   cancel_at>>
    /\ UNCHANGED <<connectVars, streamVars>>

\* lines 94-99, 103: the loop test of write with `written` bytes written and
\* `calls` made: the next socket write of at most max_write_len bytes, up to
\* its await; or Ok(()).
WriteLoop(written, calls) ==
    IF written < Len(buf)
    THEN /\ raw_calls' = Append(calls, RawCall("write", write_request(written)))
         /\ io_pc' = "raw_write"
         /\ UNCHANGED io_result
    ELSE /\ raw_calls' = calls
         /\ io_pc' = "returned"
         /\ io_result' = [tag |-> "Ok"]

\* lines 82-99: write / write_with_cancellation is called.
WriteCall ==
    /\ io_pc = "idle"
    /\ io_op = "write"
    /\ written_bytes' = 0
    /\ WriteLoop(0, raw_calls)
    /\ UNCHANGED <<io_op, io_with_token, io_token, buf, received_bytes, recv_log,
                   wire_seed, shorts, cancel_at>>
    /\ UNCHANGED <<connectVars, streamVars>>

\* Mutant of WriteStep: a failed raw write is retried instead of returned.
WriteStep_RetriesOnError ==
    /\ io_pc = "raw_write"
    /\ io_op = "write"
    /\ \E r \in RawResults("write", io_token, PendingCall.len, shorts) :
          /\ shorts' = IF r.tag = "Err" \/ r.n < PendingCall.len
                       THEN shorts + 1 ELSE shorts
          /\ LET n == IF r.tag = "Ok" THEN r.n ELSE 0 IN
             /\ written_bytes' = written_bytes + n
             /\ IF shorts < MaxShort \/ r.tag = "Ok"
                THEN WriteLoop(written_bytes + n, Completed(r))
                ELSE /\ raw_calls' = Completed(r)
                     /\ io_result' = [tag |-> "Err", err |-> r]
                     /\ io_pc' = "returned"
    /\ UNCHANGED <<io_op, io_with_token, io_token, buf, received_bytes, recv_log,
                   wire_seed, cancel_at>>
    /\ UNCHANGED <<connectVars, streamVars>>

\* Mutant of WriteStep: a write that fails (cancelled or not) closes the socket
\* before it returns.
WriteStep_ClosesOnError ==
    /\ io_pc = "raw_write"
    /\ io_op = "write"
    /\ \E r \in RawResults("write", io_token, PendingCall.len, shorts) :
          IF r.tag = "Ok"
          THEN /\ shorts' = IF r.n < PendingCall.len THEN shorts + 1 ELSE shorts
               /\ written_bytes' = written_bytes + r.n
               /\ WriteLoop(written_bytes + r.n, Completed(r))
               /\ UNCHANGED caps
          ELSE /\ raw_calls' = Completed(r)
               /\ io_result' = [tag |-> "Err", err |-> r]
               /\ io_pc' = "returned"
               /\ caps' = [caps EXCEPT ![PendingCall.sock].state = "deactivated"]
               /\ UNCHANGED <<shorts, written_bytes>>
    /\ UNCHANGED <<io_op, io_with_token, io_token, buf, received_bytes, recv_log,
                   wire_seed, cancel_at>>
    /\ UNCHANGED <<stream_obj, borrowed, owned_read, owned_write, io_shape,
                   prev_io, fd_log, life_result>>
    /\ UNCHANGED connectVars

\* lines 97-100: the pending socket write returns; `?`; written_bytes += n, and
\* the loop goes on.
WriteStep ==
    /\ io_pc = "raw_write"
    /\ io_op = "write"
    /\ \E r \in RawResults("write", io_token, PendingCall.len, shorts) :
          IF r.tag = "Ok"
          THEN /\ shorts' = IF r.n < PendingCall.len THEN shorts + 1 ELSE shorts
               /\ written_bytes' = written_bytes + r.n
               /\ WriteLoop(written_bytes + r.n, Completed(r))
          ELSE /\ raw_calls' = Completed(r)
               /\ io_result' = [tag |-> "Err", err |-> r]
               /\ io_pc' = "returned"
               /\ UNCHANGED <<shorts, written_bytes>>
    /\ UNCHANGED <<io_op, io_with_token, io_token, buf, received_bytes, recv_log,
                   wire_seed, cancel_at>>
    /\ UNCHANGED <<connectVars, streamVars>>

NextIO ==
    \/ IoCancel
    \/ ReceiveCall
    \/ ReceiveReturn
    \/ ReceiveExactCall
    \/ ReceiveExactStep
    \/ WriteCall
    \/ WriteStep

SpecIO == InitIO /\ [][NextIO]_vars

\* The call is polled to completion and every raw operation on the socket
\* eventually returns: each step of the call that can be taken is taken.  The
\* token's holder is under no obligation to cancel.
SpecIOFair ==
    /\ InitIO
    /\ [][NextIO]_vars
    /\ WF_vars(ReceiveCall)
    /\ WF_vars(ReceiveReturn)
    /\ WF_vars(ReceiveExactCall)
    /\ WF_vars(ReceiveExactStep)
    /\ WF_vars(WriteCall)
    /\ WF_vars(WriteStep)

(***************************************************************************)
(* The life of a connected stream                                          *)
(***************************************************************************)
\* The object exists and has not been consumed.
Usable(shape) ==
    CASE shape = "stream"                              -> stream_obj = "live"
      [] shape \in {"borrowed_read", "borrowed_write"} -> borrowed
      [] shape = "owned_read"                          -> owned_read = "live"
      [] shape = "owned_write"                         -> owned_write = "live"

\* The object a call on `shape` keeps borrowed: the halves of split() are
\* references to the stream.
Owner(shape) ==
    IF shape \in {"borrowed_read", "borrowed_write"} THEN "stream" ELSE shape

IoInProgress == io_pc \in {"idle", "raw_receive", "raw_write"}

\* An I/O call holds &self of obj until it returns: obj cannot be moved.
Busy(obj) == IoInProgress /\ Owner(io_shape) = obj

\* Socket::deactivate / SplitSocketHandle::deactivate on socket c: that socket
\* is released (or its release fails); no other socket is touched.
Deactivated(cs, c, ok) ==
    [cs EXCEPT ![c].state = IF ok THEN "deactivated" ELSE "deactivate_failed"]

\* Socket::split on the stream's socket succeeds: the socket no longer exists
\* as one unit, two independently closable handles to its connection do.
SplitSockets(cs) ==
    [c \in CapIds |->
        IF c = "inner"
        THEN [cs[c] EXCEPT !.state = "split"]
        ELSE [state |-> "open", fd |-> cs["inner"].fd]]

IoOps(shape) ==
    (IF shape \in ReadShapes THEN {"receive", "receive_exact"} ELSE {})
        \cup (IF shape \in WriteShapes THEN {"write"} ELSE {})

InitStream ==
    /\ Connected
    /\ FreshStream
    /\ io_pc = "none"
    /\ io_op = "receive"
    /\ io_with_token = FALSE
    /\ io_token = FALSE
    /\ buf = <<>>
    /\ received_bytes = 0
    /\ written_bytes = 0
    /\ raw_calls = <<>>
    /\ recv_log = <<>>
    /\ wire_seed = 1
    /\ shorts = 0
    /\ cancel_at = None
    /\ io_result = None

\* The caller makes a receive, receive_exact or write call (lines 19, 26, 44,
\* 57, 82, 87) on an object it holds, with a fresh buffer and a token that has
\* not been cancelled.  prev_io keeps the sockets and the outcome of the call
\* that returned before.
IoBegin ==
    /\ io_pc \in {"none", "returned"}
    /\ \E shape \in Shapes :
          /\ Usable(shape)
          /\ io_shape' = shape
          /\ io_op' \in IoOps(shape)
    /\ io_with_token' \in BOOLEAN
    /\ io_token' = FALSE
    /\ \E n \in 0..StreamBufLen : buf' = [i \in 1..n |-> InitByte(i)]
    /\ received_bytes' = 0
    /\ written_bytes' = 0
    /\ raw_calls' = <<>>
    /\ recv_log' = <<>>
    /\ shorts' = 0
    /\ cancel_at' = None
    /\ io_result' = None
    /\ io_pc' = "idle"
    /\ prev_io' = IF io_pc = "returned"
                  THEN [shape |-> io_shape,
                        socks |-> {raw_calls[j].sock : j \in 1..Len(raw_calls)},
                        cancelled |-> /\ io_result.tag = "Err"
                                      /\ io_result.err.kind = "Cancelled"]
                  ELSE None
    /\ UNCHANGED <<wire_seed, stream_obj, borrowed, owned_read, owned_write,
                   caps, fd_log, life_result>>
    /\ UNCHANGED connectVars

\* lines 165-167: as_raw_fd(&self) -> i32 { self.inner.as_raw_fd() }
AsRawFd ==
    /\ stream_obj = "live"
    /\ fd_log' = fd_log \cup {[fd |-> caps[socket("stream")].fd,
                                borrowed |-> borrowed]}
    /\ UNCHANGED <<stream_obj, borrowed, owned_read, owned_write, caps,
                   io_shape, prev_io, life_result>>
    /\ UNCHANGED <<connectVars, ioVars>>

\* Mutant of Split: the borrowed halves get a socket of their own, a duplicate
\* of the stream's.
Split_NewSocket ==
    /\ stream_obj = "live"
    /\ ~borrowed
    /\ borrowed' = TRUE
    /\ caps' = [caps EXCEPT !["inner"].fd = caps["inner"].fd + 1]
    /\ UNCHANGED <<stream_obj, owned_read, owned_write, io_shape, prev_io,
                   fd_log, life_result>>
    /\ UNCHANGED <<connectVars, ioVars>>

\* lines 186-191: split(&self) returns
\* (TlsReadStream { stream: self }, TlsWriteStream { stream: self }).
Split ==
    /\ stream_obj = "live"
    /\ ~borrowed
    /\ borrowed' = TRUE
    /\ UNCHANGED <<stream_obj, owned_read, owned_write, caps, io_shape, prev_io,
                   fd_log, life_result>>
    /\ UNCHANGED <<connectVars, ioVars>>

\* lines 205-207, 218-220: the halves of split() are references with the
\* lifetime 'a; they go out of scope once no call on them is in progress.
DropBorrowed ==
    /\ borrowed
    /\ ~(IoInProgress /\ io_shape \in {"borrowed_read", "borrowed_write"})
    /\ borrowed' = FALSE
    /\ UNCHANGED <<stream_obj, owned_read, owned_write, caps, io_shape, prev_io,
                   fd_log, life_result>>
    /\ UNCHANGED <<connectVars, ioVars>>

\* lines 174-183: split_owned(self): self.inner.split().await?, then the two
\* owned halves, each around its own SplitSocketHandle.  self is consumed
\* whatever the outcome; no borrowed half and no call on the stream is alive.
SplitOwned ==
    /\ stream_obj = "live"
    /\ ~borrowed
    /\ ~Busy("stream")
    /\ stream_obj' = "moved"
    /\ \E ok \in BOOLEAN :
          IF ok
          THEN /\ caps' = SplitSockets(caps)
               /\ owned_read' = "live"
               /\ owned_write' = "live"
               /\ life_result' =
                     [life_result EXCEPT !["split_owned"] =
                         [tag |-> "Ok", read |-> socket("owned_read"),
                          write |-> socket("owned_write")]]
          ELSE /\ caps' = [caps EXCEPT !["inner"].state = "split_failed"]
               /\ life_result' =
                     [life_result EXCEPT !["split_owned"] =
                         Err("Transport", "Socket::split", 0)]
               /\ UNCHANGED <<owned_read, owned_write>>
    /\ UNCHANGED <<borrowed, io_shape, prev_io, fd_log>>
    /\ UNCHANGED <<connectVars, ioVars>>

\* lines 198-201: deactivate(self): self.inner.deactivate().await?; Ok(())
StreamDeactivate ==
    /\ stream_obj = "live"
    /\ ~borrowed
    /\ ~Busy("stream")
    /\ stream_obj' = "moved"
    /\ \E ok \in BOOLEAN :
          /\ caps' = Deactivated(caps, socket("stream"), ok)
          /\ IF ok
             THEN life_result' = [life_result EXCEPT !["deactivate"] = [tag |-> "Ok"]]
             ELSE life_result' =
                     [life_result EXCEPT !["deactivate"] =
                         Err("Transport", "Socket::deactivate", 0)]
    /\ UNCHANGED <<borrowed, owned_read, owned_write, io_shape, prev_io, fd_log>>
    /\ UNCHANGED <<connectVars, ioVars>>

\* Mutant of OwnedReadDeactivate: deactivating the read half closes the write
\* half's handle too.
OwnedReadDeactivate_ClosesBoth ==
    /\ owned_read = "live"
    /\ ~Busy("owned_read")
    /\ owned_read' = "moved"
    /\ \E ok \in BOOLEAN :
          /\ caps' = Deactivated(Deactivated(caps, socket("owned_read"), ok),
                                 socket("owned_write"), ok)
          /\ IF ok
             THEN life_result' =
                     [life_result EXCEPT !["read_deactivate"] = [tag |-> "Ok"]]
             ELSE life_result' =
                     [life_result EXCEPT !["read_deactivate"] =
                         Err("Transport", "SplitSocketHandle::deactivate", 0)]
    /\ UNCHANGED <<stream_obj, borrowed, owned_write, io_shape, prev_io, fd_log>>
    /\ UNCHANGED <<connectVars, ioVars>>

\* lines 244-247: OwnedTlsReadStream::deactivate(self):
\* self.stream.deactivate().await?; Ok(())
OwnedReadDeactivate ==
    /\ owned_read = "live"
    /\ ~Busy("owned_read")
    /\ owned_read' = "moved"
    /\ \E ok \in BOOLEAN :
          /\ caps' = Deactivated(caps, socket("owned_read"), ok)
          /\ IF ok
             THEN life_result' =
                     [life_result EXCEPT !["read_deactivate"] = [tag |-> "Ok"]]
             ELSE life_result' =
                     [life_result EXCEPT !["read_deactivate"] =
                         Err("Transport", "SplitSocketHandle::deactivate", 0)]
    /\ UNCHANGED <<stream_obj, borrowed, owned_write, io_shape, prev_io, fd_log>>
    /\ UNCHANGED <<connectVars, ioVars>>

\* lines 264-267: OwnedTlsWriteStream::deactivate(self):
\* self.stream.deactivate().await?; Ok(())
OwnedWriteDeactivate ==
    /\ owned_write = "live"
    /\ ~Busy("owned_write")
    /\ owned_write' = "moved"
    /\ \E ok \in BOOLEAN :
          /\ caps' = Deactivated(caps, socket("owned_write"), ok)
          /\ IF ok
             THEN life_result' =
                     [life_result EXCEPT !["write_deactivate"] = [tag |-> "Ok"]]
             ELSE life_result' =
                     [life_result EXCEPT !["write_deactivate"] =
                         Err("Transport", "SplitSocketHandle::deactivate", 0)]
    /\ UNCHANGED <<stream_obj, borrowed, owned_read, io_shape, prev_io, fd_log>>
    /\ UNCHANGED <<connectVars, ioVars>>

NextStream ==
    \/ IoBegin
    \/ IoCancel
    \/ ReceiveCall
    \/ ReceiveReturn
    \/ ReceiveExactCall
    \/ ReceiveExactStep
    \/ WriteCall
    \/ WriteStep
    \/ AsRawFd
    \/ Split
    \/ DropBorrowed
    \/ SplitOwned
    \/ StreamDeactivate
    \/ OwnedReadDeactivate
    \/ OwnedWriteDeactivate

SpecStream == InitStream /\ [][NextStream]_vars

(***************************************************************************)
(* Claims about connect_with_cancellation (checked under SpecConnect)      *)
(***************************************************************************)
Terminated == pc \in {"returned", "panicked"}

HandshakeOk(k) == sockets[k].handshake.tag = "Ok"

HandshakeFailed(k) == sockets[k].handshake.tag = "Err"

\* Candidate k's handshake succeeded and those of all candidates before it failed.
FirstSuccessAt(k) ==
    /\ k \in 1..Len(addrs)
    /\ HandshakeOk(k)
    /\ \A j \in 1..(k - 1) : HandshakeFailed(j)

AllHandshakesFailed == \A k \in 1..Len(addrs) : HandshakeFailed(k)

LinkDeactivateError == Err("Link", "LteLink::deactivate", 0)

\* C1 as stated: whenever candidate k's handshake succeeds after the handshakes
\* of all earlier candidates failed, the call returns Ok(stream over candidate
\* k's socket) and the link's deactivate ran exactly once.
C1_Original ==
    \A k \in 1..Len(addrs) :
        (Terminated /\ FirstSuccessAt(k)) =>
            /\ result = OkStream(k)
            /\ linkDeactivateCalls = 1

\* C1 (amended): whenever candidate k's handshake succeeds after the handshakes
\* of all earlier candidates failed, the link's deactivate is called exactly
\* once (and the link is never released by scope exit), no later candidate is
\* tried, and the call returns Ok(stream over candidate k's still connected
\* socket) if that deactivation succeeds, and the link's deactivation error
\* (no stream) if it fails.
C1_FirstSuccessReturnsStream ==
    \A k \in 1..Len(addrs) :
        (Terminated /\ FirstSuccessAt(k)) =>
            /\ pc = "returned"
            /\ linkDeactivateCalls = 1
            /\ linkDrops = 0
            /\ \A j \in (k + 1)..Len(addrs) : sockets[j] = NoSocket
            /\ lte_link \in {"deactivated", "deactivate_failed"}
            /\ (lte_link = "deactivated") =>
                   (result = OkStream(k) /\ sockets[k].state = "connected")
            /\ (lte_link = "deactivate_failed") => (result = LinkDeactivateError)

\* The second candidate connected after the first one failed, and the stream
\* over the second socket was returned.
C1_Witness ==
    /\ pc = "returned"
    /\ Len(addrs) >= 2
    /\ FirstSuccessAt(2)
    /\ result = OkStream(2)

\* C2 as stated: for every candidate list whose handshakes all fail (read as:
\* at least one candidate, each attempted and failed), the call returns the
\* handshake error of the last candidate and the link's deactivate ran exactly
\* once.
C2_Original ==
    (Terminated /\ Len(addrs) >= 1 /\ AllHandshakesFailed) =>
        /\ pc = "returned"
        /\ result = sockets[Len(addrs)].handshake
        /\ linkDeactivateCalls = 1

\* C2 (amended): for every non-empty candidate list whose handshakes are all
\* attempted and all fail: when the last failed socket's deactivation fails the
\* call returns that failure and the link is released by scope exit, with no
\* call of its deactivate; otherwise the link's deactivate is called exactly
\* once, and the call returns the handshake error of the last candidate (never
\* an earlier one) if that deactivation succeeds and the link's deactivation
\* error if it fails.
C2_AllFailReturnsLastError ==
    (Terminated /\ Len(addrs) >= 1 /\ AllHandshakesFailed) =>
        LET n == Len(addrs) IN
        /\ pc = "returned"
        /\ IF sockets[n].state = "deactivate_failed"
           THEN /\ result = Err("Transport", "Socket::deactivate", n)
                /\ linkDeactivateCalls = 0
                /\ linkDrops = 1
           ELSE /\ linkDeactivateCalls = 1
                /\ linkDrops = 0
                /\ \A k \in 1..n : sockets[k].state = "deactivated"
                /\ (lte_link = "deactivated") => (result = sockets[n].handshake)
                /\ (lte_link # "deactivated") =>
                       (lte_link = "deactivate_failed" /\ result = LinkDeactivateError)

\* Two candidates failed with different errors and the second one's error was
\* returned after one successful link deactivation.
C2_Witness ==
    /\ pc = "returned"
    /\ Len(addrs) = 2
    /\ AllHandshakesFailed
    /\ sockets[1].handshake # sockets[2].handshake
    /\ result = sockets[2].handshake
    /\ lte_link = "deactivated"

\* The positions of a candidate attempt: token check, capability creation,
\* option setting, handshake, deactivation of the failed capability.
AttemptPcs == {"loop_head", "create", "set_options", "connect", "socket_deactivate"}

\* C3: within one call LteLink::new is called exactly once (never once per
\* candidate); at every step of every candidate attempt the link is held and
\* neither deactivated nor released; and the link is deactivated or released
\* at most once in the whole call.
C3_LinkHeldAcrossAttempts ==
    /\ linkNewCalls <= 1
    /\ (pc \notin {"idle", "link_new"}) => (linkNewCalls = 1)
    /\ (pc \in AttemptPcs) =>
           (lte_link = "held" /\ linkDeactivateCalls = 0 /\ linkDrops = 0)
    /\ linkDeactivateCalls + linkDrops <= 1
    /\ (lte_link \in {"deactivated", "deactivate_failed"}) => (linkDeactivateCalls = 1)

\* A third candidate is being attempted (its failed socket is about to be
\* deactivated) under the one activation of the call.
C3_Witness ==
    /\ pc = "socket_deactivate"
    /\ idx = 3
    /\ linkNewCalls = 1
    /\ lte_link = "held"

CancelledAtLoopHead(k) == as_result(TRUE, k)

\* C4: when the token is already cancelled as a candidate attempt begins (the
\* first one included), the next step of the call returns Cancelled, creates no
\* socket and calls LteLink::new no further time; and a call that returned that
\* way created no socket for that candidate or any later one.
C4_CancelledBeforeAttempt ==
    /\ [][(pc = "loop_head" /\ idx < Len(addrs) /\ token) =>
            /\ pc' = "returned"
            /\ result' = CancelledAtLoopHead(idx + 1)
            /\ sockets' = sockets
            /\ linkNewCalls' = linkNewCalls]_vars
    /\ [](\A k \in 1..Len(addrs) :
            (pc = "returned" /\ result = CancelledAtLoopHead(k)) =>
                /\ linkNewCalls = 1
                /\ \A j \in k..Len(addrs) : sockets[j] = NoSocket)

\* Cancellation was detected before the second candidate, after the first one
\* had been attempted.
C4_Witness ==
    /\ pc = "returned"
    /\ result = CancelledAtLoopHead(2)
    /\ HandshakeFailed(1)

\* C5: the step that deactivates a failed candidate's socket either fails, and
\* then the call returns that deactivation failure (not the handshake error)
\* at once, or succeeds, and then the call goes on to the loop head for the
\* next candidate without returning; after a return with a deactivation
\* failure no later candidate has been attempted.
C5_DeactivationFailureAbandons ==
    /\ [][(pc = "socket_deactivate" /\ pc' # pc) =>
            \/ /\ sockets'[idx].state = "deactivate_failed"
               /\ pc' = "returned"
               /\ result' = Err("Transport", "Socket::deactivate", idx)
               /\ result' # last_error
            \/ /\ sockets'[idx].state = "deactivated"
               /\ pc' = "loop_head"
               /\ idx' = idx
               /\ result' = None]_vars
    /\ [](\A k \in 1..Len(addrs) :
            (pc = "returned" /\ result = Err("Transport", "Socket::deactivate", k)) =>
                /\ HandshakeFailed(k)
                /\ \A j \in (k + 1)..Len(addrs) : sockets[j] = NoSocket)

\* The first candidate's socket failed to deactivate and the call returned that
\* failure with candidates left untried.
C5_Witness ==
    /\ pc = "returned"
    /\ result = Err("Transport", "Socket::deactivate", 1)
    /\ Len(addrs) >= 2
    /\ sockets[2] = NoSocket

(***************************************************************************)
(* Claims about receive, receive_exact and write (checked under SpecIO)    *)
(***************************************************************************)
IoReturned == io_pc = "returned"

IsCancelled(r) == r.tag = "Err" /\ r.kind = "Cancelled"

\* The call returned Err(Cancelled).
ResultCancelled == io_result.tag = "Err" /\ IsCancelled(io_result.err)

\* The raw calls that have returned.
ReturnedCalls == {j \in 1..Len(raw_calls) : raw_calls[j].ret # None}

\* C6: in receive_exact the filled part of the buffer is at every moment the
\* concatenation, in order, of what the raw receives delivered (no byte dropped,
\* duplicated or reordered across chunk boundaries) and never exceeds the
\* buffer; when it returns Ok the whole buffer is that concatenation; and it
\* returns Ok whenever no raw receive failed.
C6_ReceiveExactFills ==
    (io_op = "receive_exact") =>
        /\ received_bytes = Len(recv_log)
        /\ received_bytes <= Len(buf)
        /\ SubSeq(buf, 1, Len(recv_log)) = recv_log
        /\ (IoReturned /\ io_result.tag = "Ok") => (buf = recv_log)
        /\ (IoReturned /\ \A j \in 1..Len(raw_calls) : raw_calls[j].ret.tag = "Ok")
               => (io_result = [tag |-> "Ok"])

\* A buffer longer than one chunk was filled by at least three raw receives,
\* each delivering at least one byte, some of them fewer than asked for.
C6_Witness ==
    /\ io_op = "receive_exact"
    /\ IoReturned
    /\ io_result.tag = "Ok"
    /\ Len(buf) = MaxReceiveLen + 1
    /\ Len(raw_calls) >= 3
    /\ shorts >= 1
    /\ \A j \in 1..Len(raw_calls) : raw_calls[j].ret.n >= 1

\* C7: when receive_exact returns an error, that error is the one the last raw
\* receive returned, the bytes received until then are fewer than the buffer,
\* and the slice returned with the error is exactly the first i bytes of the
\* buffer, i the number of bytes received so far, holding those bytes in order.
C7_ErrorKeepsPrefix ==
    (io_op = "receive_exact" /\ IoReturned /\ io_result.tag = "Err") =>
        LET i == Len(recv_log) IN
        /\ i < Len(buf)
        /\ raw_calls[Len(raw_calls)].ret.tag = "Err"
        /\ io_result.err = raw_calls[Len(raw_calls)].ret
        /\ io_result.slice = Slice(0, i)
        /\ SubSeq(buf, io_result.slice.off + 1,
                  io_result.slice.off + io_result.slice.len) = recv_log

\* receive_exact was cancelled in its third chunk and returned the bytes of the
\* first two chunks and more.
C7_Witness ==
    /\ io_op = "receive_exact"
    /\ IoReturned
    /\ io_result.tag = "Err"
    /\ IsCancelled(io_result.err)
    /\ io_result.slice.len > MaxReceiveLen
    /\ Len(raw_calls) >= 3

RECURSIVE AcceptedBefore(_, _)
\* The bytes the first j - 1 raw calls of `calls` reported.
AcceptedBefore(calls, j) ==
    IF j <= 1 THEN 0
    ELSE AcceptedBefore(calls, j - 1)
             + (IF calls[j - 1].ret.tag = "Ok" THEN calls[j - 1].ret.n ELSE 0)

\* Every raw write is given min(1024, remaining) bytes, never more than 1024,
\* starting at the offset the earlier raw writes reached.
RawWritesChunked ==
    \A j \in 1..Len(raw_calls) :
        /\ raw_calls[j].op = "write"
        /\ raw_calls[j].off = AcceptedBefore(raw_calls, j)
        /\ raw_calls[j].len = Min(1024, Len(buf) - raw_calls[j].off)
        /\ raw_calls[j].len <= 1024

\* C8 as stated: every write of more than 1024 bytes issues more than one raw
\* write; no raw write is given more than 1024 bytes; on success the accepted
\* byte counts add up to the buffer length.
C8_Original ==
    (io_op = "write") =>
        /\ RawWritesChunked
        /\ (IoReturned /\ Len(buf) > 1024) => (Len(raw_calls) > 1)
        /\ (IoReturned /\ io_result.tag = "Ok") =>
               (AcceptedBefore(raw_calls, Len(raw_calls) + 1) = Len(buf))

\* C8 (amended): a write of more than 1024 bytes issues more than one raw write
\* unless its first raw write fails, and then it returns that failure after
\* that single raw write; every raw write is given min(1024, remaining) bytes
\* at the current offset, never more than 1024; on success the accepted byte
\* counts add up to the buffer length.
C8_WriteChunks ==
    (io_op = "write") =>
        /\ RawWritesChunked
        /\ (IoReturned /\ Len(buf) > 1024) =>
               /\ Len(raw_calls) >= 1
               /\ IF raw_calls[1].ret.tag = "Ok"
                  THEN Len(raw_calls) > 1
                  ELSE Len(raw_calls) = 1 /\ io_result = [tag |-> "Err", err |-> raw_calls[1].ret]
        /\ (IoReturned /\ io_result.tag = "Ok") =>
               /\ AcceptedBefore(raw_calls, Len(raw_calls) + 1) = Len(buf)
               /\ written_bytes = Len(buf)

\* A write of two chunks and a byte succeeded with at least three raw writes.
C8_Witness ==
    /\ io_op = "write"
    /\ IoReturned
    /\ io_result.tag = "Ok"
    /\ Len(buf) = 2 * MaxWriteLen + OverLen
    /\ Len(raw_calls) >= 3
    /\ raw_calls[1].len = MaxWriteLen

\* C9 as stated: a receive_with_cancellation or write_with_cancellation whose
\* token was cancelled before any byte was transferred returns Cancelled and
\* has not invoked the raw operation a second time.
C9_Original ==
    (/\ IoReturned
     /\ io_with_token
     /\ io_op \in {"receive", "write"}
     /\ cancel_at # None
     /\ cancel_at.bytes = 0) =>
        /\ ResultCancelled
        /\ Len(raw_calls) <= 1

\* C9 (amended): when the token is cancelled before the first raw call of the
\* operation has returned, receive_with_cancellation, and
\* write_with_cancellation of a non-empty buffer, return the Cancelled of that
\* one raw call and make no second one; write_with_cancellation of an empty
\* buffer makes no raw call and returns Ok.  In every case a raw call that
\* returned Cancelled is the last raw call of the operation.
C9_CancelledBeforeTransfer ==
    /\ (/\ IoReturned
        /\ io_with_token
        /\ io_op \in {"receive", "write"}
        /\ cancel_at # None
        /\ cancel_at.calls = 0) =>
           IF io_op = "write" /\ Len(buf) = 0
           THEN io_result = [tag |-> "Ok"] /\ raw_calls = <<>>
           ELSE /\ Len(raw_calls) = 1
                /\ IsCancelled(raw_calls[1].ret)
                /\ io_result = [tag |-> "Err", err |-> raw_calls[1].ret]
    /\ (io_op \in {"receive", "write"}) =>
           \A j \in ReturnedCalls :
               IsCancelled(raw_calls[j].ret) =>
                   /\ j = Len(raw_calls)
                   /\ IoReturned
                   /\ io_result = [tag |-> "Err", err |-> raw_calls[j].ret]

\* A write of more than one chunk whose token was cancelled while its first raw
\* write was pending returned Cancelled after that one raw write.
C9_Witness ==
    /\ IoReturned
    /\ io_op = "write"
    /\ io_with_token
    /\ Len(buf) > MaxWriteLen
    /\ cancel_at = [calls |-> 0, bytes |-> 0]
    /\ Len(raw_calls) = 1
    /\ ResultCancelled

\* C10: receive (with or without a caller token) makes exactly one raw receive,
\* on the first min(1024, |buf|) bytes of buf; when that reports n bytes it
\* returns the first n bytes of buf, n <= min(1024, |buf|), holding what was
\* delivered; when it fails, receive returns that error.
C10_ReceiveOnce ==
    (io_op = "receive") =>
        /\ Len(raw_calls) = (IF io_pc = "idle" THEN 0 ELSE 1)
        /\ \A j \in 1..Len(raw_calls) :
               /\ raw_calls[j].op = "receive"
               /\ raw_calls[j].off = 0
               /\ raw_calls[j].len = Min(1024, Len(buf))
        /\ IoReturned =>
               IF raw_calls[1].ret.tag = "Ok"
               THEN /\ io_result = [tag |-> "Ok", slice |-> Slice(0, raw_calls[1].ret.n)]
                    /\ io_result.slice.len <= Min(1024, Len(buf))
                    /\ SubSeq(buf, 1, io_result.slice.len) = recv_log
               ELSE io_result = [tag |-> "Err", err |-> raw_calls[1].ret]

\* A receive into a buffer longer than 1024 bytes returned exactly 1024 bytes.
C10_Witness ==
    /\ io_op = "receive"
    /\ IoReturned
    /\ Len(buf) > 1024
    /\ io_result.tag = "Ok"
    /\ io_result.slice = Slice(0, 1024)

(***************************************************************************)
(* Claims about the stream and its halves (checked under SpecStream)       *)
(***************************************************************************)
SplitOwnedOk == life_result["split_owned"].tag = "Ok"

\* The half is alive exactly while its handle is open: usable for its I/O and
\* still to be deactivated, once.
HalfIntact(half, handle) == half = "live" <=> caps[handle].state = "open"

C12_IoKeepsCapability ==
    [][ /\ (IoInProgress /\ ioVars' # ioVars) =>
            UNCHANGED <<stream_obj, borrowed, owned_read, owned_write, caps>>
        /\ ( /\ IoInProgress'
             /\ prev_io' # None
             /\ prev_io'.cancelled
             /\ Owner(io_shape') = Owner(prev_io'.shape) ) =>
            \A j \in 1..Len(raw_calls') :
                /\ prev_io'.socks = {raw_calls'[j].sock}
                /\ caps'[raw_calls'[j].sock].state = "open"
      ]_vars

\* A call was cancelled; the next call on the same object, its token never
\* cancelled, has transferred bytes and returned Ok.
C12_Witness ==
    /\ prev_io # None
    /\ prev_io.cancelled
    /\ io_shape = prev_io.shape
    /\ io_pc = "returned"
    /\ ~io_token
    /\ io_result.tag = "Ok"
    /\ Len(raw_calls) > 0
    /\ raw_calls[1].ret.tag = "Ok" /\ raw_calls[1].ret.n > 0

\* C13: as_raw_fd returns one descriptor, that of the stream's socket, with or
\* without borrowed halves alive; every raw call made through a borrowed half
\* is made on the stream's socket; and creating or dropping the borrowed halves
\* changes no socket and creates none.
C13_SplitIsTransparent ==
    [][ /\ \A e \in fd_log' : e.fd = caps'[socket("stream")].fd
        /\ Cardinality({e.fd : e \in fd_log'}) <= 1
        /\ io_shape' \in {"borrowed_read", "borrowed_write"} =>
            \A j \in 1..Len(raw_calls') : raw_calls'[j].sock = socket("stream")
        /\ borrowed' # borrowed =>
            /\ UNCHANGED <<caps, stream_obj, owned_read, owned_write>>
            /\ \A c \in CapIds \ {socket("stream")} : caps'[c].state = "none"
      ]_vars

\* as_raw_fd has been called both without and with borrowed halves alive, and
\* a receive through the borrowed read half has returned data.
C13_Witness ==
    /\ \E e \in fd_log : e.borrowed
    /\ \E e \in fd_log : ~e.borrowed
    /\ borrowed
    /\ io_shape = "borrowed_read"
    /\ io_pc = "returned"
    /\ io_result.tag = "Ok"
    /\ Len(raw_calls) > 0

(***************************************************************************)
(* Further claims about connect_with_cancellation (under SpecConnect)      *)
(***************************************************************************)
\* to_socket_addrs() returned Ok with an iterator that yields no address.
EmptyCandidateList == resolve_ok /\ addrs = <<>>

\* C14 as stated: a call with an empty candidate list ends in a panic, with no
\* Ok or Err returned and no socket created, after the link has been activated
\* and deactivated.
C14_Original ==
    (Terminated /\ EmptyCandidateList) =>
        /\ pc = "panicked"
        /\ result.tag = "Panic"
        /\ sockets = <<>>
        /\ linkNewCalls = 1
        /\ lte_link = "deactivated"

\* C14 (amended): a call with an empty candidate list creates no socket and
\* never returns Ok.  It panics (unwrap of the empty last_error) exactly when
\* the link was activated and its deactivation succeeded, the one deactivate
\* call coming before the panic; when LteLink::new fails, or when the link's
\* deactivate fails, that error is returned as Err instead and there is no
\* panic.
C14_EmptyListPanics ==
    (Terminated /\ EmptyCandidateList) =>
        /\ sockets = <<>>
        /\ result.tag # "Ok"
        /\ linkNewCalls = 1
        /\ linkDrops = 0
        /\ pc = "panicked" <=> lte_link = "deactivated"
        /\ pc = "panicked" =>
              /\ result.tag = "Panic"
              /\ linkDeactivateCalls = 1
        /\ pc = "returned" =>
              \/ /\ result = Err("Link", "LteLink::new", 0)
                 /\ lte_link = "none"
                 /\ linkDeactivateCalls = 0
              \/ /\ result = LinkDeactivateError
                 /\ lte_link = "deactivate_failed"
                 /\ linkDeactivateCalls = 1

\* The empty list has led to the panic, after the link's deactivation.
C14_Witness ==
    /\ EmptyCandidateList
    /\ pc = "panicked"
    /\ lte_link = "deactivated"
    /\ linkDeactivateCalls = 1

\* The value of the TlsPeerVerify option the spec gives for each variant.
PeerVerifyLevel == [Enabled |-> 2, Optional |-> 1, Disabled |-> 0]

\* C15: as_integer is defined on all three variants, maps Enabled to 2,
\* Optional to 1 and Disabled to 0, is one-to-one and onto {0, 1, 2}; and the
\* level connect sets on a socket is that value for the call's peer_verify,
\* which the conversion leaves as it was.
C15_AsIntegerBijection ==
    /\ \A pv \in PeerVerification : as_integer(pv) = PeerVerifyLevel[pv]
    /\ {as_integer(pv) : pv \in PeerVerification} = {0, 1, 2}
    /\ \A p, q \in PeerVerification : as_integer(p) = as_integer(q) => p = q
    /\ peer_verify \in PeerVerification
    /\ \A k \in 1..Len(sockets) :
          sockets[k].opts # <<>> =>
              sockets[k].opts[1] = <<"TlsPeerVerify", PeerVerifyLevel[peer_verify]>>

\* The conversion has been applied to Optional for the first socket.
C15_Witness ==
    /\ peer_verify = "Optional"
    /\ Len(sockets) >= 1
    /\ sockets[1].opts # <<>>
    /\ sockets[1].opts[1] = <<"TlsPeerVerify", 1>>

\* The calls whose error `?` returns while lte_link is still a live local.
EarlyReturnOps ==
    {"token.as_result", "Socket::create", "TlsPeerVerify", "TlsSessionCache",
     "TlsTagList", "Socket::deactivate"}

\* No socket of the call is left open, except the connected one inside a
\* returned stream.
NoStraySocket ==
    \A k \in 1..Len(sockets) :
        /\ sockets[k].state # "open"
        /\ sockets[k].state = "connected" => result = OkStream(k)

\* C16 as stated: whenever the call has returned and had activated the link,
\* the link's deactivate has been called, and no socket of the call is open
\* except the one of the returned stream.
C16_Original ==
    (pc = "returned" /\ lte_link # "none") =>
        /\ linkDeactivateCalls = 1
        /\ NoStraySocket

\* C16 (amended): whenever the call has returned, the link it activated is no
\* longer held, released exactly once: by a call of deactivate when the call
\* returns a stream, the last handshake error or the link's own deactivation
\* error; by going out of scope, with no deactivate call, when the call returns
\* by `?` on cancellation, on a failed socket creation, on a failed option or
\* on a failed deactivation of a failed socket.  No socket of the call is left
\* open except the one of the returned stream: the others were deactivated or
\* went out of scope.
C16_LinkReleasedOnReturn ==
    pc = "returned" =>
        /\ lte_link \in {"none", "deactivated", "deactivate_failed", "dropped"}
        /\ lte_link = "none" <=> result = Err("Link", "LteLink::new", 0)
        /\ linkDeactivateCalls + linkDrops = (IF lte_link = "none" THEN 0 ELSE 1)
        /\ linkDeactivateCalls = 1 <=> lte_link \in {"deactivated", "deactivate_failed"}
        /\ lte_link = "dropped" <=>
              (result.tag = "Err" /\ result.op \in EarlyReturnOps)
        /\ lte_link = "deactivated" <=>
              (result.tag = "Ok" \/ (result.tag = "Err" /\ result.op = "Socket::connect"))
        /\ lte_link = "deactivate_failed" <=> result = LinkDeactivateError
        /\ NoStraySocket

\* The call was cancelled after a failed first candidate: it returned Cancelled
\* with the link out of scope and never deactivated.
C16_Witness ==
    /\ pc = "returned"
    /\ result = Cancelled("token.as_result", 2)
    /\ sockets[1].state = "deactivated"
    /\ lte_link = "dropped"
    /\ linkDeactivateCalls = 0

Created(k) == sockets[k].state # "none"

\* C17: the sockets are created in the order of the candidate list, the one of
\* candidate k only once the handshake of every earlier candidate has failed
\* and its socket has been deactivated with success; so at most one socket of
\* the call is open at a time, and once a handshake has succeeded no later
\* candidate gets a socket.
C17_OneCandidateAtATime ==
    /\ \A k \in 1..Len(sockets) :
          Created(k) =>
              /\ k <= idx
              /\ \A j \in 1..(k - 1) :
                    /\ HandshakeFailed(j)
                    /\ sockets[j].state = "deactivated"
    /\ Cardinality({k \in 1..Len(sockets) :
                        sockets[k].state \in {"open", "connected"}}) <= 1
    /\ \A j \in 1..Len(sockets) :
          HandshakeOk(j) => \A k \in (j + 1)..Len(sockets) : sockets[k] = NoSocket

\* The third candidate's socket is open after two failed handshakes.
C17_Witness ==
    /\ Len(sockets) >= 3
    /\ sockets[3].state = "open"
    /\ HandshakeFailed(1) /\ sockets[1].state = "deactivated"
    /\ HandshakeFailed(2) /\ sockets[2].state = "deactivated"

(***************************************************************************)
(* Further claims about receive_exact and write (under SpecIO)             *)
(***************************************************************************)
\* C18: in receive_exact and in write, a raw call that returned an error is the
\* last raw call of the operation, the operation has returned, and what it
\* returned is that error; the Err of write holds the error alone, with no
\* count of the bytes written before.
C18_FirstFailureSurfaces ==
    io_op \in {"receive_exact", "write"} =>
        /\ \A j \in 1..Len(raw_calls) :
              raw_calls[j].ret.tag = "Err" =>
                  /\ j = Len(raw_calls)
                  /\ io_pc = "returned"
                  /\ io_result.tag = "Err"
                  /\ io_result.err = raw_calls[j].ret
        /\ (io_op = "write" /\ io_result.tag = "Err") =>
              DOMAIN io_result = {"tag", "err"}

\* A write whose second raw write failed with a transport error, after bytes
\* had been written, has returned that error.
C18_Witness ==
    /\ io_op = "write"
    /\ io_pc = "returned"
    /\ Len(raw_calls) >= 2
    /\ written_bytes > 0
    /\ raw_calls[Len(raw_calls)].ret = Err("Transport", "write", 0)
    /\ io_result = [tag |-> "Err", err |-> Err("Transport", "write", 0)]

(***************************************************************************)
(* The order of the steps of one candidate attempt (under SpecConnect)     *)
(***************************************************************************)
\* Socket k is a TLS 1.2 stream socket of the family of candidate k, with the
\* three options set in the order of the claim.
ReadyForHandshake(k) ==
    /\ sockets[k].family = (IF addrs[k] = "V4" THEN "Ipv4" ELSE "Ipv6")
    /\ sockets[k].type = "Stream"
    /\ sockets[k].protocol = "Tls1v2"
    /\ sockets[k].opts = << <<"TlsPeerVerify", PeerVerifyLevel[peer_verify]>>,
                            <<"TlsSessionCache", 0>>,
                            <<"TlsTagList", security_tags>> >>

\* C20: a handshake is attempted (pending or done) only on the socket created
\* for that candidate, of the candidate's family, on which TlsPeerVerify with
\* the as_integer value, TlsSessionCache(0) and TlsTagList(security_tags) have
\* been set, all three and in that order; the handshake is taken from not
\* attempted to done in one step, on the open socket of the current candidate;
\* and a socket whose creation or option setting failed has had no handshake.
C20_HandshakeAfterOptions ==
    [][ /\ \A k \in 1..Len(sockets) :
              sockets'[k].handshake # None =>
                  /\ ReadyForHandshake(k)'
                  /\ sockets[k].handshake # sockets'[k].handshake =>
                        /\ k = idx
                        /\ pc = "connect"
                        /\ sockets[k].handshake = None
                        /\ sockets[k].state = "open"
                        /\ ReadyForHandshake(k)
        /\ pc' = "connect" => ReadyForHandshake(idx)'
        /\ \A k \in 1..Len(sockets) :
              ( /\ result'.tag = "Err"
                /\ result'.cand = k
                /\ result'.op \in {"Socket::create", "TlsPeerVerify",
                                    "TlsSessionCache", "TlsTagList"} ) =>
                  sockets'[k].handshake = None
      ]_vars

\* The handshake of the second candidate, an IPv6 address, has been attempted
\* on its socket with the three options set.
C20_Witness ==
    /\ Len(addrs) >= 2
    /\ addrs[2] = "V6"
    /\ peer_verify = "Disabled"
    /\ security_tags = <<42, 7>>
    /\ sockets[2].handshake # None
    /\ sockets[2].family = "Ipv6"
    /\ Len(sockets[2].opts) = 3

\* A raw operation has succeeded without transferring a byte.
ZeroTransferSeen ==
    \E j \in 1..Len(raw_calls) : raw_calls[j].ret = [tag |-> "Ok", n |-> 0]

\* C19: the byte counts of receive_exact and of write never decrease and never
\* exceed the length of the buffer (the socket reporting at most what it was
\* asked for); and, every raw operation returning, a receive_exact or write
\* call on any buffer returns unless some raw operation succeeded with 0 bytes.
C19_EventuallyReturns ==
    /\ [](received_bytes <= Len(buf) /\ written_bytes <= Len(buf))
    /\ [][received_bytes' >= received_bytes /\ written_bytes' >= written_bytes]_vars
    /\ (io_op \in {"receive_exact", "write"}) ~> (io_pc = "returned" \/ ZeroTransferSeen)

\* A receive_exact over more than two chunks has returned Ok after raw receives
\* that each delivered at least one byte, some of them fewer than asked for.
C19_Witness ==
    /\ io_op = "receive_exact"
    /\ io_pc = "returned"
    /\ io_result.tag = "Ok"
    /\ Len(buf) > 2 * MaxReceiveLen
    /\ ~ZeroTransferSeen
    /\ shorts >= 2
    /\ received_bytes = Len(buf)

=============================================================================
